---- MODULE Spec2Model ----
(***************************************************************************)
(* A model of app.py, the stock dashboard: one run of the script for one   *)
(* user query (build_sidebar, then build_main), together with the pure     *)
(* functions get_metric_classification and get_price_target.               *)
(*                                                                         *)
(* Numbers.  A Python float is modelled as an exact rational n/d, the      *)
(* record [n, d] in lowest terms with d >= 0; d = 0 gives the IEEE special *)
(* values: 0/0 is NaN, 1/0 is +inf and -1/0 is -inf.  Rounding of float64  *)
(* is not modelled.  Python's None is the value None below.                *)
(*                                                                         *)
(* Strings that the code edits (ticker symbols, column names) are          *)
(* sequences of one-character strings, so that t + ".SA" and               *)
(* str.rstrip(".SA") are computed as Python computes them.                 *)
(***************************************************************************)
EXTENDS Integers, Sequences, FiniteSets, TLC

\* ------------------------------------------------------------------ bounds
\* Largest number of price rows (trading days) a date range yields.
MaxRows == 3
\* Largest value, in tenths, of a fundamental ratio given to the classifier.
MaxTenths == 260
\* Largest price the provider quotes for regularMarketPrice / targetMeanPrice.
MaxQuote == 8

\* ------------------------------------------------------------- arithmetic
\* Python's None.
None == [none |-> TRUE]

Abs(k) == IF k < 0 THEN -k ELSE k

Sign(k) == IF k < 0 THEN -1 ELSE IF k > 0 THEN 1 ELSE 0

RECURSIVE GCD(_, _)
GCD(a, b) == IF b = 0 THEN a ELSE GCD(b, a % b)

\* The float n/d, in lowest terms (d = 0: NaN or a signed infinity).
Rat(n, d) ==
    IF d = 0 THEN [n |-> Sign(n), d |-> 0]
    ELSE LET g == GCD(Abs(n), Abs(d))
             s == Sign(d)
         IN  [n |-> (s * n) \div g, d |-> (s * d) \div g]

Num(k) == [n |-> k, d |-> 1]

NaN == [n |-> 0, d |-> 0]

IsNaN(x) == x = NaN

Neg(x) == [n |-> -x.n, d |-> x.d]

Add(x, y) ==
    IF IsNaN(x) \/ IsNaN(y) THEN NaN
    ELSE IF x.d = 0 /\ y.d = 0 THEN (IF x.n = y.n THEN x ELSE NaN)
    ELSE IF x.d = 0 THEN x
    ELSE IF y.d = 0 THEN y
    ELSE Rat(x.n * y.d + y.n * x.d, x.d * y.d)

Sub(x, y) == Add(x, Neg(y))

Mul(x, y) ==
    IF IsNaN(x) \/ IsNaN(y) THEN NaN
    ELSE Rat(x.n * y.n, x.d * y.d)

Div(x, y) ==
    IF IsNaN(x) \/ IsNaN(y) THEN NaN
    ELSE Rat(x.n * y.d * (IF y.n < 0 THEN -1 ELSE 1), x.d * Abs(y.n))

\* x < y, x <= y, x > y, x >= y on floats: every comparison with NaN is false.
Lt(x, y) ==
    /\ ~IsNaN(x) /\ ~IsNaN(y)
    /\ IF x.d = 0 /\ y.d = 0 THEN x.n < y.n
       ELSE IF x.d = 0 THEN x.n < 0
       ELSE IF y.d = 0 THEN y.n > 0
       ELSE x.n * y.d < y.n * x.d

Le(x, y) == ~IsNaN(x) /\ ~IsNaN(y) /\ ~Lt(y, x)

Gt(x, y) == Lt(y, x)

Ge(x, y) == Le(y, x)

\* Python truthiness of an optional float: None and 0.0 are false, NaN is true.
Truthy(x) == x # None /\ x # Num(0)

RECURSIVE SumSeq(_)
SumSeq(s) == IF s = <<>> THEN Num(0) ELSE Add(s[1], SumSeq(Tail(s)))

\* ---------------------------------------------------------------- strings
Str_SA == <<".", "S", "A">>

IBOV == <<"I", "B", "O", "V">>

PORTFOLIO == <<"p", "o", "r", "t", "f", "o", "l", "i", "o">>

\* str.rstrip(chars): drops trailing characters that belong to chars.
RECURSIVE RStrip(_, _)
RStrip(s, chars) ==
    IF s # <<>> /\ s[Len(s)] \in chars
    THEN RStrip(SubSeq(s, 1, Len(s) - 1), chars)
    ELSE s

Range(s) == {s[i] : i \in 1..Len(s)}

\* The ticker catalog (tickers_ibra.csv): B3 symbols, which end in a digit.
Catalog == {<<"P", "E", "T", "R", "4">>, <<"V", "A", "L", "E", "3">>}

\* ------------------------------------------------ get_metric_classification
MetricNames == {"PE", "PEG", "EV_EBITDA", "PB", "DIV_YIELD", "ROE", "NET_MARGIN"}

PE_PlainLe(x) ==
    IF Lt(x, Num(10)) THEN "bom" ELSE IF Lt(x, Num(25)) THEN "estavel" ELSE "avaliar"

Classify_PE(x) ==
    IF Lt(x, Num(10)) THEN "bom" ELSE IF Le(x, Num(25)) THEN "estavel" ELSE "avaliar"

Classify_PEG(x) == IF Lt(x, Num(1)) THEN "bom" ELSE "avaliar"

Classify_EV_EBITDA(x) ==
    IF Lt(x, Num(6)) THEN "bom" ELSE IF Le(x, Num(12)) THEN "estavel" ELSE "avaliar"

Classify_PB(x) ==
    IF Lt(x, Num(1)) THEN "bom" ELSE IF Le(x, Num(3)) THEN "estavel" ELSE "avaliar"

Classify_DIV_YIELD(x) ==
    IF Gt(x, Num(5)) THEN "bom" ELSE IF Ge(x, Num(2)) THEN "estavel" ELSE "avaliar"

Classify_ROE(x) ==
    IF Gt(x, Num(20)) THEN "bom" ELSE IF Ge(x, Num(10)) THEN "estavel" ELSE "avaliar"

Classify_NET_MARGIN(x) ==
    IF Gt(x, Num(15)) THEN "bom" ELSE IF Ge(x, Num(5)) THEN "estavel" ELSE "avaliar"

get_metric_classification(metric, value) ==
    IF value = None THEN "N/A"
    ELSE CASE metric = "PE" -> Classify_PE(value)
           [] metric = "PEG" -> Classify_PEG(value)
           [] metric = "EV_EBITDA" -> Classify_EV_EBITDA(value)
           [] metric = "PB" -> Classify_PB(value)
           [] metric = "DIV_YIELD" -> Classify_DIV_YIELD(value)
           [] metric = "ROE" -> Classify_ROE(value)
           [] metric = "NET_MARGIN" -> Classify_NET_MARGIN(value)
           [] OTHER -> "N/A"

\* ---------------------------------------------------------- get_price_target
\* dict.get(key, None) on the provider's info mapping.
InfoGet(info, key) == IF key \in DOMAIN info THEN info[key] ELSE None

PriceTarget_Truthiness(info) ==
    LET current_price == InfoGet(info, "regularMarketPrice")
        target_price == InfoGet(info, "targetMeanPrice")
    IN  IF ~Truthy(current_price) \/ ~Truthy(target_price)
        THEN <<None, None, "sem dados">>
        ELSE IF Lt(current_price, target_price)
             THEN <<current_price, target_price, "reversao">>
             ELSE <<current_price, target_price, "acima">>

\* get_price_target after stock.info has been read: (current, target, class).
PriceTargetOf(info) ==
    LET current_price == InfoGet(info, "regularMarketPrice")
        target_price == InfoGet(info, "targetMeanPrice")
    IN  IF current_price = None \/ target_price = None
        THEN <<None, None, "sem dados">>
        ELSE IF Lt(current_price, target_price)
             THEN <<current_price, target_price, "reversao">>
             ELSE <<current_price, target_price, "acima">>

\* ------------------------------------------------------------------- state
VARIABLES
    pc,            \* position of the script run
    tickers,       \* build_sidebar: [t + ".SA" for t in selected_tickers]
    ndates,        \* number of trading days between start_date and end_date
    data,          \* the provider's answer to the last yf.download call
    prices,        \* the price table (a DataFrame), or None
    fundamentals,  \* ticker -> snapshot, as built by build_sidebar
    result,        \* what build_sidebar returned to the module level
    msgs,          \* st.error / st.warning messages shown so far
    calls,         \* provider calls issued so far, in order
    idx,           \* loop position (fundamentals comprehension, card loop)
    stats,         \* build_main: norm_prices, returns, vols, rets; or None
    cards,         \* metric cards rendered so far
    chart,         \* what the two charts were given, or None
    exc,           \* the uncaught exception that ended the run, or None
    arg,           \* input of the pure function under check
    res            \* its result

vars == <<pc, tickers, ndates, data, prices, fundamentals, result, msgs, calls,
          idx, stats, cards, chart, exc, arg, res>>

\* ------------------------------------------------------ the data provider
AdjClose == <<"A", "d", "j", " ", "C", "l", "o", "s", "e">>

Close == <<"C", "l", "o", "s", "e">>

PriceFields == {AdjClose, Close}

\* Quotes of one symbol: the first day's (missing, zero, or positive) and the
\* later days' (a rise, or a fall).
QuotePairs == {<<NaN, Num(3)>>, <<Num(0), Num(3)>>, <<Num(2), Num(3)>>, <<Num(5), Num(1)>>}

\* Price series over T dates.
SeriesOver(T) == {[t \in 1..T |-> IF t = 1 THEN q[1] ELSE q[2]] : q \in QuotePairs}

\* The dividend-adjusted quote of a close quote.
Adjusted(s) == [t \in 1..Len(s) |-> Div(s[t], Num(2))]

\* Answers of yf.download(symbols): the fields present, and per field the
\* series of each symbol.  flat: the single-symbol layout, in which
\* data[field] is a Series named after the field.
Downloads(symbols, T, layouts) ==
    {[fields |-> f, flat |-> fl,
      table |-> [fld \in f |-> [s \in symbols |->
                    IF fld = AdjClose THEN Adjusted(c[s]) ELSE c[s]]]] :
        f \in SUBSET PriceFields,
        fl \in layouts,
        c \in [symbols -> SeriesOver(T)]}

\* Answers of yf.Ticker(t).info: a mapping, or None.
InfoFull ==
    [trailingPE |-> Num(8), pegRatio |-> Num(1), enterpriseToEbitda |-> Num(12),
     priceToBook |-> Num(3), profitMargins |-> Rat(1, 5),
     dividendYield |-> Rat(1, 20), returnOnEquity |-> Rat(1, 10),
     regularMarketPrice |-> Num(10), targetMeanPrice |-> Num(12)]

InfoSparse ==
    [trailingPE |-> Num(30), profitMargins |-> Num(0), regularMarketPrice |-> Num(0)]

Infos == {InfoFull, InfoSparse, None}

\* ------------------------------------------------------- fetch_stock_data
Frame(cols, d) == [columns |-> cols, data |-> d]

\* prices.columns = prices.columns.str.rstrip(".SA")
RenameColumns(frame) ==
    LET new == [i \in 1..Len(frame.columns) |-> RStrip(frame.columns[i], Range(Str_SA))]
    IN  Frame(new, [c \in Range(new) |->
                     frame.data[frame.columns[CHOOSE i \in 1..Len(new) : new[i] = c]]])

\* A pandas Series: its name and its values.
Series(name, values) == [name |-> name, values |-> values]

\* data[field]: one column per symbol, or a Series named field.
Select(d, field, symbols) ==
    IF d.flat THEN Series(field, d.table[field][symbols[1]])
    ELSE Frame(symbols, [s \in Range(symbols) |-> d.table[field][s]])

IsSeries(x) == "name" \in DOMAIN x

to_frame(series) == Frame(<<series.name>>, [c \in {series.name} |-> series.values])

\* isinstance(prices, pd.Series) -> to_frame(); then the columns are renamed.
AsPriceTable(selected) ==
    RenameColumns(IF IsSeries(selected) THEN to_frame(selected) ELSE selected)

fetch_stock_data_CloseFirst(d, symbols) ==
    IF Close \in d.fields THEN AsPriceTable(Select(d, Close, symbols))
    ELSE IF AdjClose \in d.fields THEN AsPriceTable(Select(d, AdjClose, symbols))
    ELSE None

\* The price table, or None (after st.error) when no price field is present.
fetch_stock_data(d, symbols) ==
    IF AdjClose \in d.fields THEN AsPriceTable(Select(d, AdjClose, symbols))
    ELSE IF Close \in d.fields THEN AsPriceTable(Select(d, Close, symbols))
    ELSE None

\* ----------------------------------------------------- fetch_fundamentals
SnapshotKeys ==
    {"PE", "PEG", "EV_EBITDA", "PB", "NET_MARGIN", "DIV_YIELD", "ROE", "CURRENT_PRICE"}

\* info.get(key, None) * 100 if info.get(key) else None
Percent(info, key) ==
    IF Truthy(InfoGet(info, key)) THEN Mul(InfoGet(info, key), Num(100)) ELSE None

fetch_fundamentals(info) ==
    IF info = None
    THEN \* info.get raises inside the try block: the except branch
         [k \in {"PE", "PEG", "EV_EBITDA", "NET_MARGIN", "DIV_YIELD"} |-> None]
    ELSE [k \in SnapshotKeys |->
            CASE k = "PE" -> InfoGet(info, "trailingPE")
              [] k = "PEG" -> InfoGet(info, "pegRatio")
              [] k = "EV_EBITDA" -> InfoGet(info, "enterpriseToEbitda")
              [] k = "PB" -> InfoGet(info, "priceToBook")
              [] k = "NET_MARGIN" -> Percent(info, "profitMargins")
              [] k = "DIV_YIELD" -> Percent(info, "dividendYield")
              [] k = "ROE" -> Percent(info, "returnOnEquity")
              [] k = "CURRENT_PRICE" -> InfoGet(info, "regularMarketPrice")]

\* -------------------------------------------------------- fetch_ibov_data
BVSP == <<"^", "B", "V", "S", "P">>

\* The benchmark Series, or None (after st.warning).
fetch_ibov_data(d) ==
    IF AdjClose \in d.fields THEN Series(AdjClose, d.table[AdjClose][BVSP])
    ELSE IF Close \in d.fields THEN Series(Close, d.table[Close][BVSP])
    ELSE None

\* prices[name] = series
SetColumn(frame, name, series) ==
    Frame(IF name \in Range(frame.columns) THEN frame.columns
          ELSE Append(frame.columns, name),
          [c \in Range(frame.columns) \cup {name} |->
              IF c = name THEN series ELSE frame.data[c]])

\* ------------------------------------------------------------- build_main
\* frame.drop(name, axis=1), for a name that is a column.
Drop(frame, name) ==
    LET keep == SelectSeq(frame.columns, LAMBDA c : c # name)
    IN  Frame(keep, [c \in Range(keep) |-> frame.data[c]])

NRows(frame) == IF frame.columns = <<>> THEN 0 ELSE Len(frame.data[frame.columns[1]])

Weights_Ones(n) == [i \in 1..n |-> Num(1)]

\* np.ones(n) / n
Weights(n) == [i \in 1..n |-> Div(Num(1), Num(n))]

\* frame @ w: per row, the dot product of the row with w.
MatMul(frame, w, T) ==
    [t \in 1..T |->
        SumSeq([i \in 1..Len(frame.columns) |-> Mul(frame.data[frame.columns[i]][t], w[i])])]

\* 100 * frame / frame.iloc[0]
Normalize(frame, T) ==
    [c \in Range(frame.columns) |->
        [t \in 1..T |-> Div(Mul(Num(100), frame.data[c][t]), frame.data[c][1])]]

\* frame.pct_change()[1:], without forward fill: price[t] / price[t-1] - 1.
PctChange(frame, T) ==
    [c \in Range(frame.columns) |->
        [t \in 1..(T - 1) |-> Sub(Div(frame.data[c][t + 1], frame.data[c][t]), Num(1))]]

\* Series.std() squared (ddof = 1, NaN skipped): the sample variance.
Variance(s) ==
    LET v == SelectSeq(s, LAMBDA x : ~IsNaN(x))
        k == Len(v)
        mean == Div(SumSeq(v), Num(k))
        sq == [i \in 1..k |-> Mul(Sub(v[i], mean), Sub(v[i], mean))]
    IN  IF k < 2 THEN NaN ELSE Div(SumSeq(sq), Num(k - 1))

\* (returns.std() * sqrt(252)) squared, per column: the volatility is kept
\* as its square, which is rational.
VolsSquared(returns) == [c \in DOMAIN returns |-> Mul(Variance(returns[c]), Num(252))]

\* (norm_prices.iloc[-1] - 100) / 100
Rets(norm, T) == [c \in DOMAIN norm |-> Div(Sub(norm[c][T], Num(100)), Num(100))]

\* Lines 155-156: the table with its portfolio column, or the exception.
WithPortfolio(frame, symbols) ==
    IF IBOV \notin Range(frame.columns)
    THEN [error |-> "KeyError: IBOV"]
    ELSE IF Len(Drop(frame, IBOV).columns) # Len(symbols)
    THEN [error |-> "ValueError"]
    ELSE SetColumn(frame, PORTFOLIO,
                   MatMul(Drop(frame, IBOV), Weights(Len(symbols)), NRows(frame)))

\* Lines 158-161 on the table with its portfolio column.
Analytics(frame) ==
    LET T == NRows(frame) IN
    IF T = 0 THEN [error |-> "IndexError"]
    ELSE LET norm == Normalize(frame, T)
             returns == PctChange(frame, T)
         IN  [norm_prices |-> norm, returns |-> returns,
              vols2 |-> VolsSquared(returns), rets |-> Rets(norm, T)]

IsError(x) == "error" \in DOMAIN x


\* The card loop's rows: (label, key of the snapshot and metric type).
MetricRows ==
    << <<"P/L", "PE">>, <<"PEG", "PEG">>, <<"EV/EBITDA", "EV_EBITDA">>,
       <<"P/VPA", "PB">>, <<"ROE", "ROE">>, <<"Margem Liq.", "NET_MARGIN">>,
       <<"Div. Yield", "DIV_YIELD">> >>

\* fundamentals.get(key, {})
FundGet(fund, key) == IF key \in DOMAIN fund THEN fund[key] ELSE <<>>

\* Lines 217-221: one line per metric whose value is not None.
MetricLines(fund) ==
    LET shown == SelectSeq(MetricRows, LAMBDA r : fund[r[2]] # None)
    IN  [i \in 1..Len(shown) |->
            LET classification == get_metric_classification(shown[i][2], fund[shown[i][2]])
            IN  [label |-> shown[i][1], value |-> fund[shown[i][2]],
                 classification |-> classification,
                 color |-> IF classification = "avaliar" THEN "red"
                           ELSE IF classification = "bom" THEN "green"
                           ELSE "orange"]]

IsAssetColumn_Always(col) == TRUE

\* Line 193: the columns that get a price target and metric lines.
IsAssetColumn(col) == col \notin {PORTFOLIO, IBOV}

\* One iteration of the card loop for column col; info is the provider's
\* answer to get_price_target's stock.info (read for asset columns only).
Card(col, rets, fund_map, info) ==
    IF ~IsAssetColumn(col)
    THEN [col |-> col, ret |-> rets[col], target |-> None, metrics |-> <<>>]
    ELSE IF info = None THEN [error |-> "AttributeError: info"]
    ELSE LET pt == PriceTargetOf(info)
             fund == FundGet(fund_map, col \o Str_SA)
         IN  IF \E r \in Range(MetricRows) : r[2] \notin DOMAIN fund
             THEN [error |-> "KeyError: snapshot"]
             ELSE [col |-> col, ret |-> rets[col],
                   target |-> IF Truthy(pt[1]) /\ Truthy(pt[2])
                              THEN [current |-> pt[1], target |-> pt[2], class |-> pt[3]]
                              ELSE None,
                   metrics |-> MetricLines(fund)]

\* ------------------------------------------------------------ the script
RECURSIVE Arrangements(_)
Arrangements(S) ==
    IF S = {} THEN {<<>>}
    ELSE UNION {{<<x>> \o a : a \in Arrangements(S \ {x})} : x \in S}

\* What st.multiselect can return: the chosen symbols in the order chosen.
Selections == UNION {Arrangements(S) : S \in SUBSET Catalog}

Call(fn, api, symbols) == [fn |-> fn, api |-> api, arg |-> symbols]

Init ==
    /\ pc = "start"
    /\ tickers = <<>>
    /\ ndates = 0
    /\ data = None
    /\ prices = None
    /\ fundamentals = <<>>
    /\ result = "pending"
    /\ msgs = <<>>
    /\ calls = <<>>
    /\ idx = 0
    /\ stats = None
    /\ cards = <<>>
    /\ chart = None
    /\ exc = "none"
    /\ arg = None
    /\ res = None

\* build_sidebar, lines 130-140: the widgets are read; an empty selection
\* returns (None, None, None), and the module level then skips build_main.
SelectInputs ==
    /\ pc = "start"
    /\ \E sel \in Selections, T \in 0..MaxRows :
        /\ tickers' = [i \in 1..Len(sel) |-> sel[i] \o Str_SA]
        /\ ndates' = T
        /\ IF sel = <<>>
           THEN result' = "none" /\ pc' = "done"
           ELSE result' = result /\ pc' = "fetch_prices"
    /\ UNCHANGED <<data, prices, fundamentals, msgs, calls, idx, stats, cards,
                   chart, exc, arg, res>>

ReturnsEarly_Never(p) == FALSE

\* build_sidebar, lines 143-144: "if prices is None: return None, None, None".
ReturnsEarly(p) == p = None

\* build_sidebar, lines 142-144.
FetchStockData ==
    /\ pc = "fetch_prices"
    /\ \E d \in Downloads(Range(tickers), ndates,
                          IF Len(tickers) = 1 THEN BOOLEAN ELSE {FALSE}) :
        LET p == fetch_stock_data(d, tickers) IN
        /\ data' = d
        /\ calls' = Append(calls, Call("fetch_stock_data", "download", tickers))
        /\ prices' = p
        /\ msgs' = IF p = None THEN Append(msgs, "error: no valid prices") ELSE msgs
        /\ result' = IF ReturnsEarly(p) THEN "none" ELSE result
        /\ pc' = IF ReturnsEarly(p) THEN "done" ELSE "fetch_fund"
        /\ idx' = IF ReturnsEarly(p) THEN idx ELSE 1
    /\ UNCHANGED <<tickers, ndates, fundamentals, stats, cards, chart, exc, arg, res>>

\* build_sidebar, line 146: one fetch_fundamentals call of the comprehension.
FetchFundamentals ==
    /\ pc = "fetch_fund"
    /\ \E info \in Infos :
        fundamentals' = (tickers[idx] :> fetch_fundamentals(info)) @@ fundamentals
    /\ calls' = Append(calls, Call("fetch_fundamentals", "info", <<tickers[idx]>>))
    /\ IF idx = Len(tickers)
       THEN pc' = "fetch_ibov" /\ idx' = 0
       ELSE pc' = pc /\ idx' = idx + 1
    /\ UNCHANGED <<tickers, ndates, data, prices, result, msgs, stats, cards, chart,
                   exc, arg, res>>

\* build_sidebar, lines 148-152, and the module level's "if tickers:".
FetchIbov ==
    /\ pc = "fetch_ibov"
    /\ \E d \in Downloads({BVSP}, ndates, {TRUE}) :
        LET ibov_prices == fetch_ibov_data(d) IN
        /\ data' = d
        /\ IF ibov_prices = None
           THEN /\ msgs' = Append(msgs, "warning: no IBOV data")
                /\ prices' = prices
           ELSE /\ msgs' = msgs
                /\ prices' = SetColumn(prices, IBOV, ibov_prices.values)
    /\ calls' = Append(calls, Call("fetch_ibov_data", "download", <<BVSP>>))
    /\ result' = "ok"
    /\ pc' = "main"
    /\ UNCHANGED <<tickers, ndates, fundamentals, idx, stats, cards, chart, exc, arg, res>>

\* build_main, lines 155-161: the computation pass.
BuildMain ==
    /\ pc = "main"
    /\ LET table == WithPortfolio(prices, tickers) IN
       IF IsError(table)
       THEN /\ exc' = table.error
            /\ pc' = "crashed"
            /\ UNCHANGED <<data, prices, stats, idx>>
       ELSE /\ prices' = table
            /\ data' = None
            /\ LET computed == Analytics(table) IN
               IF IsError(computed)
               THEN /\ exc' = computed.error
                    /\ pc' = "crashed"
                    /\ UNCHANGED <<stats, idx>>
               ELSE /\ stats' = computed
                    /\ exc' = exc
                    /\ pc' = "render"
                    /\ idx' = 1
    /\ UNCHANGED <<tickers, ndates, fundamentals, result, msgs, calls, cards,
                   chart, arg, res>>

\* build_main, lines 165-239: one iteration of the card loop.
RenderCard ==
    /\ pc = "render"
    /\ LET col == prices.columns[idx] IN
       \E info \in IF IsAssetColumn(col) THEN Infos ELSE {None} :
        LET card == Card(col, stats.rets, fundamentals, info) IN
        /\ calls' = IF IsAssetColumn(col)
                    THEN Append(calls, Call("get_price_target", "info", <<col \o Str_SA>>))
                    ELSE calls
        /\ IF IsError(card)
           THEN /\ exc' = card.error
                /\ pc' = "crashed"
                /\ UNCHANGED <<cards, idx>>
           ELSE /\ cards' = Append(cards, card)
                /\ exc' = exc
                /\ IF idx = Len(prices.columns)
                   THEN pc' = "charts" /\ idx' = 0
                   ELSE pc' = pc /\ idx' = idx + 1
    /\ UNCHANGED <<tickers, ndates, data, prices, fundamentals, result, msgs, stats,
                   chart, arg, res>>

\* build_main, lines 241-272: the two charts.
RenderCharts ==
    /\ pc = "charts"
    /\ chart' = [lines |-> stats.norm_prices, x |-> stats.vols2, y |-> stats.rets]
    /\ pc' = "done"
    /\ UNCHANGED <<tickers, ndates, data, prices, fundamentals, result, msgs, calls,
                   idx, stats, cards, exc, arg, res>>

Next ==
    \/ SelectInputs
    \/ FetchStockData
    \/ FetchFundamentals
    \/ FetchIbov
    \/ BuildMain
    \/ RenderCard
    \/ RenderCharts

Spec == Init /\ [][Next]_vars


\* ---------------------------------------------- the pure functions, alone
\* Metric names given to the classifier: the seven of the table and others.
MetricArgs == MetricNames \cup {"CURRENT_PRICE", "P/L", ""}

\* Values given to the classifier: None, the infinities, and every multiple
\* of one tenth up to MaxTenths / 10 in absolute value.
ValueArgs ==
    {None, Rat(1, 0), Rat(-1, 0)} \cup {Rat(k, 10) : k \in (-MaxTenths)..MaxTenths}

\* Quotes of an info mapping: an integer price, or None (a JSON null).
QuoteArgs == {None} \cup {Num(k) : k \in 0..MaxQuote}

\* info mappings given to get_price_target: each of the two keys is absent
\* or holds a quote.
InfoArgs ==
    {[regularMarketPrice |-> c, targetMeanPrice |-> t] : c \in QuoteArgs, t \in QuoteArgs}
    \cup {[regularMarketPrice |-> c] : c \in QuoteArgs}
    \cup {[targetMeanPrice |-> t] : t \in QuoteArgs}
    \cup {[shortName |-> None]}

InitFn ==
    /\ pc = "call"
    /\ arg \in {[fn |-> "get_metric_classification", metric |-> m, value |-> v] :
                    m \in MetricArgs, v \in ValueArgs}
               \cup {[fn |-> "get_price_target", info |-> i] : i \in InfoArgs}
    /\ res = None
    /\ tickers = <<>>
    /\ ndates = 0
    /\ data = None
    /\ prices = None
    /\ fundamentals = <<>>
    /\ result = "pending"
    /\ msgs = <<>>
    /\ calls = <<>>
    /\ idx = 0
    /\ stats = None
    /\ cards = <<>>
    /\ chart = None
    /\ exc = "none"

CallClassification ==
    /\ pc = "call"
    /\ arg.fn = "get_metric_classification"
    /\ res' = [value |-> get_metric_classification(arg.metric, arg.value)]
    /\ pc' = "returned"
    /\ UNCHANGED <<tickers, ndates, data, prices, fundamentals, result, msgs, calls,
                   idx, stats, cards, chart, exc, arg>>

CallPriceTarget ==
    /\ pc = "call"
    /\ arg.fn = "get_price_target"
    /\ res' = [value |-> PriceTargetOf(arg.info)]
    /\ pc' = "returned"
    /\ UNCHANGED <<tickers, ndates, data, prices, fundamentals, result, msgs, calls,
                   idx, stats, cards, chart, exc, arg>>

NextFn == CallClassification \/ CallPriceTarget

SpecFn == InitFn /\ [][NextFn]_vars

\* ------------------------------------------------------------------ claims
\* The table of section 4.2, as data: per metric, whether lower is better, the
\* bound of the good bucket and the far bound of the stable bucket (None when
\* the metric has no stable bucket).
Thresholds ==
    [PE |-> [lower_better |-> TRUE, good |-> 10, stable |-> Num(25)],
     PEG |-> [lower_better |-> TRUE, good |-> 1, stable |-> None],
     EV_EBITDA |-> [lower_better |-> TRUE, good |-> 6, stable |-> Num(12)],
     PB |-> [lower_better |-> TRUE, good |-> 1, stable |-> Num(3)],
     DIV_YIELD |-> [lower_better |-> FALSE, good |-> 5, stable |-> Num(2)],
     ROE |-> [lower_better |-> FALSE, good |-> 20, stable |-> Num(10)],
     NET_MARGIN |-> [lower_better |-> FALSE, good |-> 15, stable |-> Num(5)]]

\* The bucket the table assigns to the number q (d > 0 or an infinity),
\* decided on integers: q.n / q.d against the thresholds.
TableBucket(metric, q) ==
    LET row == Thresholds[metric]
        below(k) == IF q.d = 0 THEN q.n < 0 ELSE q.n < k * q.d
        above(k) == IF q.d = 0 THEN q.n > 0 ELSE q.n > k * q.d
    IN  IF row.lower_better
        THEN IF below(row.good) THEN "bom"
             ELSE IF row.stable = None THEN "avaliar"
             ELSE IF above(row.stable.n) THEN "avaliar"
             ELSE "estavel"
        ELSE IF above(row.good) THEN "bom"
             ELSE IF below(row.stable.n) THEN "avaliar"
             ELSE "estavel"

Reference(metric, value) ==
    IF value = None \/ metric \notin MetricNames THEN "N/A"
    ELSE TableBucket(metric, value)

\* C1: once get_metric_classification has returned, its result is the bucket
\* the threshold table of section 4.2 assigns to (metric, value), and "N/A"
\* for a None value or a metric name outside the seven of the table.
C1_ClassificationMatchesTable ==
    (pc = "returned" /\ arg.fn = "get_metric_classification")
        => res.value = Reference(arg.metric, arg.value)

\* C1 witness: PE has been classified at its boundary value 25.
C1_Witness ==
    /\ pc = "returned"
    /\ arg.fn = "get_metric_classification"
    /\ arg.metric = "PE"
    /\ arg.value = Num(25)
    /\ res.value = "estavel"

\* C9: get_price_target returns "reversao" exactly when both quotes are
\* available and current < target, "acima" exactly when both are available
\* and current >= target, and "sem dados" exactly when one is unavailable;
\* a quote of 0 is available.
C9_PriceTargetClasses ==
    (pc = "returned" /\ arg.fn = "get_price_target") =>
        LET has(k) == k \in DOMAIN arg.info /\ arg.info[k] # None
            both == has("regularMarketPrice") /\ has("targetMeanPrice")
            cur == arg.info["regularMarketPrice"].n
            tgt == arg.info["targetMeanPrice"].n
        IN  /\ res.value[3] = "reversao" <=> (both /\ cur < tgt)
            /\ res.value[3] = "acima" <=> (both /\ cur >= tgt)
            /\ res.value[3] = "sem dados" <=> ~both

\* C9 witness: a current price of 0 below its target is classified as upside.
C9_Witness ==
    /\ pc = "returned"
    /\ arg.fn = "get_price_target"
    /\ arg.info = [regularMarketPrice |-> Num(0), targetMeanPrice |-> Num(1)]
    /\ res.value = <<Num(0), Num(1), "reversao">>


\* build_main's computation pass (lines 155-161) has run, or was never due.
ComputationOver == pc \in {"render", "charts", "done", "crashed"}

BenchmarkMissing == "warning: no IBOV data" \in Range(msgs)

\* C2: when the benchmark fetch returned nothing, build_main still completes
\* the portfolio, normalization, return and volatility computation (stated
\* for price tables of two rows or more, on which all four are defined).
C2_ToleratesMissingBenchmark ==
    (result = "ok" /\ BenchmarkMissing /\ ndates >= 2 /\ ComputationOver) => stats # None

\* C3: every snapshot built by fetch_fundamentals is defined on all eight
\* metric names, so that no read of a snapshot in the card loop fails.
C3_SnapshotsAreTotal ==
    /\ \A t \in DOMAIN fundamentals : DOMAIN fundamentals[t] = SnapshotKeys
    /\ exc # "KeyError: snapshot"

\* The statistics handed to the presentation layer so far: the returns shown
\* on cards, and the volatilities and returns given to the scatter chart.
Presented ==
    {cards[i].ret : i \in 1..Len(cards)}
    \cup (IF chart = None THEN {}
          ELSE {chart.x[c] : c \in DOMAIN chart.x} \cup {chart.y[c] : c \in DOMAIN chart.y})

\* C4: a price table of 0 or 1 rows ends the analytics pass in an error, with
\* no statistics computed, and no NaN return or volatility is presented
\* (stated for the queries whose benchmark was fetched; whatever exception
\* ends the pass is taken for the insufficient-data error).
C4_InsufficientDataIsAnError ==
    (result = "ok" /\ ~BenchmarkMissing /\ ndates < 2 /\ ComputationOver) =>
        /\ pc = "crashed"
        /\ stats = None
        /\ NaN \notin Presented

\* C5: in a completed analytics pass every column's normalized series starts
\* at exactly 100, and no column whose first price is missing or zero has a
\* normalized series.
C5_NormalizedStartsAt100 ==
    stats # None =>
        \A c \in DOMAIN stats.norm_prices :
            /\ stats.norm_prices[c][1] = Num(100)
            /\ prices.data[c][1] \notin {NaN, Num(0)}

\* The non-benchmark asset columns of the price table.
AssetColumns == SelectSeq(prices.columns, LAMBDA c : c \notin {IBOV, PORTFOLIO})

\* C6: a computed portfolio column is the row-wise mean of the N >= 1 asset
\* columns, the benchmark excluded: N * portfolio[t] is the sum of the N asset
\* prices at t (a missing price makes both sides NaN), and N is the number of
\* selected tickers.
C6_PortfolioIsMean ==
    (result = "ok" /\ PORTFOLIO \in Range(prices.columns)) =>
        LET N == Len(AssetColumns) IN
        /\ N >= 1
        /\ N = Len(tickers)
        /\ \A t \in 1..ndates :
            Mul(Num(N), prices.data[PORTFOLIO][t])
                = SumSeq([i \in 1..N |-> prices.data[AssetColumns[i]][t]])

\* C6 witness: two assets quoted (2, 3) and (0, 3) beside a benchmark quoted
\* (2, 3) have the portfolio (1, 3).
C6_Witness ==
    /\ result = "ok"
    /\ Len(tickers) = 2
    /\ ndates = 2
    /\ PORTFOLIO \in Range(prices.columns)
    /\ prices.data[IBOV] = <<Num(2), Num(3)>>
    /\ prices.data[AssetColumns[1]] = <<Num(2), Num(3)>>
    /\ prices.data[AssetColumns[2]] = <<Num(0), Num(3)>>
    /\ prices.data[PORTFOLIO] = <<Num(1), Num(3)>>

\* The state right after fetch_stock_data: its download is the only call.
AfterPriceFetch == Len(calls) = 1

\* C7: fetch_stock_data reads "Adj Close" when it is present, "Close" when
\* only that is present, and otherwise reports the error and returns no table.
C7_FieldPriority ==
    AfterPriceFetch =>
        LET holds(field) ==
                /\ prices # None
                /\ Len(prices.columns) = Len(tickers)
                /\ \A i \in 1..Len(tickers) :
                    prices.data[prices.columns[i]] = data.table[field][tickers[i]]
        IN  /\ AdjClose \in data.fields => holds(AdjClose)
            /\ (AdjClose \notin data.fields /\ Close \in data.fields) => holds(Close)
            /\ data.fields \cap PriceFields = {} =>
                /\ prices = None
                /\ result = "none"
                /\ msgs = <<"error: no valid prices">>

\* C7 witness: both fields are present and the table holds the adjusted
\* quotes (1, 3/2), not the close quotes (2, 3).
C7_Witness ==
    /\ AfterPriceFetch
    /\ data.fields = PriceFields
    /\ Len(tickers) = 2
    /\ data.table[Close][tickers[1]] = <<Num(2), Num(3)>>
    /\ prices.data[prices.columns[1]] = <<Num(1), Rat(3, 2)>>

NoValidPriceField == "error: no valid prices" \in Range(msgs)

EmptySelection == pc # "start" /\ tickers = <<>>

\* Nothing after the price fetch has happened: no fundamentals, benchmark or
\* price-target call, no computation, no card, no chart; the run is over.
QueryAborted ==
    /\ pc = "done"
    /\ result = "none"
    /\ \A i \in 1..Len(calls) : calls[i].fn = "fetch_stock_data"
    /\ fundamentals = <<>>
    /\ stats = None
    /\ cards = <<>>
    /\ chart = None

\* C8 as stated: after a price fetch without a valid price field, and after
\* an empty selection, the query is aborted and the failure is reported.
C8_AbortIsReported ==
    (NoValidPriceField \/ EmptySelection) => (QueryAborted /\ msgs # <<>>)

\* C8 amended: both cases abort the query with no table (no default data);
\* the missing price field is reported with st.error, while an empty
\* selection issues no provider call and shows no message.
C8_AbortAndReport ==
    /\ NoValidPriceField =>
        /\ QueryAborted
        /\ prices = None
        /\ Len(calls) = 1
        /\ msgs = <<"error: no valid prices">>
    /\ EmptySelection =>
        /\ QueryAborted
        /\ prices = None
        /\ calls = <<>>
        /\ msgs = <<>>

\* C8 witness: a run that ended on the missing price field.
C8_Witness ==
    /\ NoValidPriceField
    /\ pc = "done"
    /\ tickers # <<>>
    /\ data.fields = {}

SidebarSteps == {"fetch_prices", "fetch_fund", "fetch_ibov"}

\* No two calls ask the provider for the same thing.
NoRepeatedRequest(log) ==
    \A i, j \in 1..Len(log) :
        (log[i].api = log[j].api /\ log[i].arg = log[j].arg) => i = j

\* No function of the script is called twice with the same argument.
NoRepeatedCall(log) ==
    \A i, j \in 1..Len(log) :
        (log[i].fn = log[j].fn /\ log[i].arg = log[j].arg) => i = j

\* C10 as stated: every provider call is issued in build_sidebar, before the
\* computation pass, and nothing is requested from the provider twice.
C10_FetchesPrecedeAnalytics ==
    [][calls' # calls => (pc \in SidebarSteps /\ NoRepeatedRequest(calls'))]_vars

\* The calls build_sidebar issues, in order.
SidebarCalls ==
    <<Call("fetch_stock_data", "download", tickers)>>
    \o [i \in 1..Len(tickers) |-> Call("fetch_fundamentals", "info", <<tickers[i]>>)]
    \o <<Call("fetch_ibov_data", "download", <<BVSP>>)>>

\* C10 amended: the price, fundamentals and benchmark calls are all issued
\* by build_sidebar, in that order, before the computation pass; the only
\* calls issued later are get_price_target's, one in the card of each asset
\* column during the render pass (so a ticker's info is requested a second
\* time); no function is called twice with the same argument.
C10_SidebarFetchesPrecedeAnalytics ==
    [][/\ pc' = "main" => calls' = SidebarCalls
       /\ (calls' # calls /\ pc \notin SidebarSteps) =>
            /\ pc = "render"
            /\ prices.columns[idx] \notin {IBOV, PORTFOLIO}
            /\ calls' = Append(calls, Call("get_price_target", "info",
                                           <<prices.columns[idx] \o Str_SA>>))
       /\ (calls' = calls /\ pc = "render") => prices.columns[idx] \in {IBOV, PORTFOLIO}
       /\ NoRepeatedCall(calls')]_vars

\* C10 witness: a finished run in which both tickers' price targets were
\* requested after the computation pass.
C10_Witness ==
    /\ pc = "done"
    /\ Len(tickers) = 2
    /\ chart # None
    /\ Len(calls) = 6
    /\ calls[5].fn = "get_price_target"
    /\ calls[6].fn = "get_price_target"

====
